---- MODULE Spec2Model ----
(***************************************************************************)
(* Model of claude-usage-tracker: the Admin API usage/cost aggregation     *)
(* (anthropic_api.py: AnthropicAdminAPI), the OAuth session-usage pollers  *)
(* (anthropic_api.py: get_oauth_usage, tracker_lite.py: get_usage), the    *)
(* reset-time formatters (format_reset_time, fmt_reset) and the menu-bar   *)
(* apps (tracker.py: ClaudeUsageTracker, tracker_lite.py: App).            *)
(*                                                                         *)
(* Conventions.                                                            *)
(*  - A Python str is a sequence of one-character strings.                 *)
(*  - An optional JSON field is <<>> when the key is absent and <<v>> when *)
(*    it is present with value v (dict.get(key, default)).                 *)
(*  - UsageData objects live in a heap (a sequence); a reference is an     *)
(*    index into it, so that assignment through a reference is visible to  *)
(*    every holder of that reference.                                      *)
(*  - Monetary amounts are exact integers; float rounding is not modelled. *)
(***************************************************************************)
EXTENDS Integers, Sequences, FiniteSets, TLC

(***************************************************************************)
(* Bounds of the model                                                     *)
(***************************************************************************)
\* rows the three reports of one refresh carry altogether
MaxRows == 2
\* day-buckets in one report
MaxBuckets == 2
\* largest token count in one field of a row
MaxTok == 1
\* largest amount in one cost row
MaxAmount == 1

(***************************************************************************)
(* Strings                                                                 *)
(***************************************************************************)
UpperChars == <<"A","B","C","D","E","F","G","H","I","J","K","L","M",
                "N","O","P","Q","R","S","T","U","V","W","X","Y","Z">>
LowerChars == <<"a","b","c","d","e","f","g","h","i","j","k","l","m",
                "n","o","p","q","r","s","t","u","v","w","x","y","z">>

\* str.lower() on one character
LowerChar(c) ==
    IF \E i \in 1..26 : UpperChars[i] = c
    THEN LowerChars[CHOOSE i \in 1..26 : UpperChars[i] = c]
    ELSE c

\* str.lower()
Lower(s) == [i \in 1..Len(s) |-> LowerChar(s[i])]

\* sub in s
Contains(sub, s) ==
    \E k \in 0..(Len(s) - Len(sub)) :
        \A i \in 1..Len(sub) : s[k + i] = sub[i]

\* s[-n:]
Suffix(s, n) == IF Len(s) <= n THEN s ELSE SubSeq(s, Len(s) - n + 1, Len(s))

\* dict.get(key, default) on an optional field
Get(opt, default) == IF opt = <<>> THEN default ELSE opt[1]

(***************************************************************************)
(* _friendly_model_name                                                    *)
(***************************************************************************)
FriendlyModelName(model) ==
    IF Contains(<<"o","p","u","s">>, Lower(model)) THEN <<"O","p","u","s">>
    ELSE IF Contains(<<"s","o","n","n","e","t">>, Lower(model)) THEN <<"S","o","n","n","e","t">>
    ELSE IF Contains(<<"h","a","i","k","u">>, Lower(model)) THEN <<"H","a","i","k","u">>
    ELSE model

(***************************************************************************)
(* UsageData                                                               *)
(***************************************************************************)
UsageData(i, o, t, c) ==
    [input_tokens |-> i, output_tokens |-> o, total_tokens |-> t, cost_usd |-> c]

\* UsageData() with the dataclass defaults
UsageDataDefault == UsageData(0, 0, 0, 0)

UsageDataAdd_TotalBug(self, other) ==
    UsageData(self.input_tokens + other.input_tokens,
              self.output_tokens + other.output_tokens,
              self.total_tokens + other.input_tokens,
              self.cost_usd + other.cost_usd)

\* UsageData.__add__
UsageDataAdd(self, other) ==
    UsageData(self.input_tokens + other.input_tokens,
              self.output_tokens + other.output_tokens,
              self.total_tokens + other.total_tokens,
              self.cost_usd + other.cost_usd)

(***************************************************************************)
(* _combine_data                                                           *)
(***************************************************************************)
\* bucket.get("results", []); every bucket of the model has the key
Results(bucket) == bucket.results

\* for bucket in ...: for item in bucket.get("results", []): the rows in
\* the order in which the nested loops visit them
RECURSIVE ScanRows(_)
ScanRows(buckets) ==
    IF buckets = <<>> THEN <<>>
    ELSE Results(Head(buckets)) \o ScanRows(Tail(buckets))

ModelInputTokens_NoCacheCreation(item) ==
    Get(item.uncached_input_tokens, 0) + Get(item.cache_read_input_tokens, 0)

\* input tokens of a row of the model-grouped report
ModelInputTokens(item) ==
    LET cache_creation == Get(item.cache_creation,
                              [ephemeral_1h_input_tokens |-> <<>>,
                               ephemeral_5m_input_tokens |-> <<>>])
    IN  Get(item.uncached_input_tokens, 0) + Get(item.cache_read_input_tokens, 0)
        + Get(cache_creation.ephemeral_1h_input_tokens, 0)
        + Get(cache_creation.ephemeral_5m_input_tokens, 0)

KeyInputTokens_WithCacheCreation(item) == ModelInputTokens(item)

\* input tokens of a row of the api-key-grouped report
KeyInputTokens(item) ==
    Get(item.uncached_input_tokens, 0) + Get(item.cache_read_input_tokens, 0)

OutputTokens(item) == Get(item.output_tokens, 0)

\* item.get("model", "unknown"), then _friendly_model_name
ModelKey(item) == FriendlyModelName(Get(item.model, <<"u","n","k","n","o","w","n">>))

Workbench == <<"w","o","r","k","b","e","n","c","h">>

\* item.get("api_key_id") or "workbench"; the field is an optional whose
\* value is [null |-> TRUE] for JSON null and [null |-> FALSE, s |-> str]
ApiKeyId(item) ==
    IF item.api_key_id = <<>> THEN Workbench
    ELSE IF item.api_key_id[1].null \/ item.api_key_id[1].s = <<>> THEN Workbench
    ELSE item.api_key_id[1].s

TotalsAdd_NoMerge(totals, key, input, output) ==
    Append(totals, [key |-> key, input |-> input, output |-> output])

\* totals[key]["input"] += input; totals[key]["output"] += output on a
\* defaultdict, which keeps its keys in insertion order
TotalsAdd(totals, key, input, output) ==
    IF \E i \in 1..Len(totals) : totals[i].key = key
    THEN LET i == CHOOSE j \in 1..Len(totals) : totals[j].key = key
         IN  [totals EXCEPT ![i].input = @ + input, ![i].output = @ + output]
    ELSE Append(totals, [key |-> key, input |-> input, output |-> output])

RECURSIVE ModelTotals(_, _)
ModelTotals(rows, totals) ==
    IF rows = <<>> THEN totals
    ELSE ModelTotals(Tail(rows),
                     TotalsAdd(totals, ModelKey(Head(rows)),
                               ModelInputTokens(Head(rows)), OutputTokens(Head(rows))))

RECURSIVE KeyTotals(_, _)
KeyTotals(rows, totals) ==
    IF rows = <<>> THEN totals
    ELSE KeyTotals(Tail(rows),
                   TotalsAdd(totals, ApiKeyId(Head(rows)),
                             KeyInputTokens(Head(rows)), OutputTokens(Head(rows))))

AddToTotal_AliasBug(st, uref) ==
    IF st.heap[st.total] = UsageDataDefault
    THEN [st EXCEPT !.total = uref]
    ELSE [st EXCEPT !.heap = Append(@, UsageDataAdd(st.heap[st.total], st.heap[uref])),
                    !.total = Len(st.heap) + 1]

\* result["total"] = result["total"] + usage: __add__ allocates a new object
AddToTotal(st, uref) ==
    [st EXCEPT !.heap = Append(@, UsageDataAdd(st.heap[st.total], st.heap[uref])),
               !.total = Len(st.heap) + 1]

\* the "Create ModelUsage objects" loop, from entry i on
RECURSIVE CreateModelUsage(_, _, _)
CreateModelUsage(st, totals, i) ==
    IF i > Len(totals) THEN st
    ELSE LET tokens == totals[i]
             usage == UsageData(tokens.input, tokens.output,
                                tokens.input + tokens.output, 0)
             st1 == [st EXCEPT !.heap = Append(@, usage),
                               !.by_model = Append(@, [model |-> tokens.key,
                                                       usage |-> Len(st.heap) + 1])]
         IN  CreateModelUsage(AddToTotal(st1, Len(st.heap) + 1), totals, i + 1)

KeyHint(key_id) ==
    IF key_id = Workbench THEN <<"W","o","r","k","b","e","n","c","h">>
    ELSE IF Len(key_id) > 6 THEN <<".",".",".">> \o Suffix(key_id, 6)
    ELSE key_id

\* the "Create ApiKeyUsage objects" loop, from entry i on
RECURSIVE CreateApiKeyUsage(_, _, _)
CreateApiKeyUsage(st, totals, i) ==
    IF i > Len(totals) THEN st
    ELSE LET tokens == totals[i]
             usage == UsageData(tokens.input, tokens.output,
                                tokens.input + tokens.output, 0)
             st1 == [st EXCEPT !.heap = Append(@, usage),
                               !.by_key = Append(@, [key_id |-> tokens.key,
                                                     key_hint |-> KeyHint(tokens.key),
                                                     usage |-> Len(st.heap) + 1])]
         IN  CreateApiKeyUsage(st1, totals, i + 1)

SortInsert_TiesReversed(sorted, e, heap) ==
    LET k == heap[e.usage].total_tokens
        p == Cardinality({j \in 1..Len(sorted) : heap[sorted[j].usage].total_tokens > k})
    IN  SubSeq(sorted, 1, p) \o <<e>> \o SubSeq(sorted, p + 1, Len(sorted))

\* one step of the stable descending sort: e goes behind every entry whose
\* total_tokens is greater than or equal to its own
SortInsert(sorted, e, heap) ==
    LET k == heap[e.usage].total_tokens
        p == Cardinality({j \in 1..Len(sorted) : heap[sorted[j].usage].total_tokens >= k})
    IN  SubSeq(sorted, 1, p) \o <<e>> \o SubSeq(sorted, p + 1, Len(sorted))

\* list.sort(key=lambda x: x.usage.total_tokens, reverse=True)
RECURSIVE SortByTotalDesc(_, _, _)
SortByTotalDesc(list, sorted, heap) ==
    IF list = <<>> THEN sorted
    ELSE SortByTotalDesc(Tail(list), SortInsert(sorted, Head(list), heap), heap)

\* float(item.get("amount", 0)) raises ValueError on a non-numeric value
AmountRaises(item) == item.amount # <<>> /\ ~item.amount[1].num

Amount(item) == IF item.amount = <<>> THEN 0 ELSE item.amount[1].v

RECURSIVE SumAmounts(_)
SumAmounts(rows) ==
    IF rows = <<>> THEN 0 ELSE Amount(Head(rows)) + SumAmounts(Tail(rows))

\* the "Calculate total cost" loop
TotalCost(cost_data) == SumAmounts(ScanRows(cost_data))

CombineRaises(cost_data) ==
    \E i \in 1..Len(ScanRows(cost_data)) : AmountRaises(ScanRows(cost_data)[i])

\* result["total"].cost_usd = total_cost
AssignCost(st, total_cost) ==
    [st EXCEPT !.heap[st.total].cost_usd = total_cost]

NoReport ==
    [kind |-> "none", heap |-> <<>>, total |-> 0, by_model |-> <<>>, by_key |-> <<>>]

\* _combine_data when no row raises
CombineData(model_usage, key_usage, cost_data) ==
    LET st0 == [kind |-> "report", heap |-> <<UsageDataDefault>>, total |-> 1,
                by_model |-> <<>>, by_key |-> <<>>]
        st1 == CreateModelUsage(st0, ModelTotals(ScanRows(model_usage), <<>>), 1)
        st2 == [st1 EXCEPT !.by_model = SortByTotalDesc(st1.by_model, <<>>, st1.heap)]
        st3 == CreateApiKeyUsage(st2, KeyTotals(ScanRows(key_usage), <<>>), 1)
        st4 == [st3 EXCEPT !.by_key = SortByTotalDesc(st3.by_key, <<>>, st3.heap)]
    IN  AssignCost(st4, TotalCost(cost_data))

(***************************************************************************)
(* datetime: a naive UTC datetime is [Y, M, D, h, m, s]                    *)
(***************************************************************************)
IsLeap(y) == y % 4 = 0 /\ (y % 100 # 0 \/ y % 400 = 0)

DaysInMonth(y, m) ==
    IF m = 2 THEN (IF IsLeap(y) THEN 29 ELSE 28)
    ELSE IF m \in {4, 6, 9, 11} THEN 30 ELSE 31

\* datetime._days_before_year
DaysBeforeYear(y) ==
    (y - 1) * 365 + (y - 1) \div 4 - (y - 1) \div 100 + (y - 1) \div 400

RECURSIVE DaysBeforeMonth(_, _)
DaysBeforeMonth(y, m) ==
    IF m = 1 THEN 0 ELSE DaysBeforeMonth(y, m - 1) + DaysInMonth(y, m - 1)

\* date.toordinal()
ToOrdinal(y, m, d) == DaysBeforeYear(y) + DaysBeforeMonth(y, m) + d

\* years the calendar arithmetic of the model covers
Years == 2020..2030

\* date.fromordinal(), the inverse of toordinal()
FromOrdinal(n) ==
    LET y == CHOOSE yy \in Years : DaysBeforeYear(yy) < n /\ n <= DaysBeforeYear(yy + 1)
        r == n - DaysBeforeYear(y)
        m == CHOOSE mm \in 1..12 :
                 DaysBeforeMonth(y, mm) < r /\ r <= DaysBeforeMonth(y, mm) + DaysInMonth(y, mm)
    IN  [Y |-> y, M |-> m, D |-> r - DaysBeforeMonth(y, m)]

\* dt + timedelta(days=n): through the proleptic ordinal, time of day kept
AddDays(dt, n) ==
    LET ymd == FromOrdinal(ToOrdinal(dt.Y, dt.M, dt.D) + n)
    IN  [dt EXCEPT !.Y = ymd.Y, !.M = ymd.M, !.D = ymd.D]

\* dt.replace(hour=0, minute=0, second=0)
Midnight(dt) == [dt EXCEPT !.h = 0, !.m = 0, !.s = 0]

DigitChars == <<"0","1","2","3","4","5","6","7","8","9">>

Digit(n) == DigitChars[n + 1]

DigitValue(c) == CHOOSE n \in 0..9 : DigitChars[n + 1] = c

Pad2(n) == <<Digit(n \div 10), Digit(n % 10)>>

Pad4(n) == <<Digit(n \div 1000), Digit((n \div 100) % 10), Digit((n \div 10) % 10), Digit(n % 10)>>

\* dt.strftime("%Y-%m-%dT%H:%M:%SZ")
Strftime(dt) ==
    Pad4(dt.Y) \o <<"-">> \o Pad2(dt.M) \o <<"-">> \o Pad2(dt.D) \o <<"T">>
    \o Pad2(dt.h) \o <<":">> \o Pad2(dt.m) \o <<":">> \o Pad2(dt.s) \o <<"Z">>

Num2(s, i) == DigitValue(s[i]) * 10 + DigitValue(s[i + 1])

\* datetime.strptime(s, "%Y-%m-%dT%H:%M:%SZ")
Strptime(s) ==
    [Y |-> Num2(s, 1) * 100 + Num2(s, 3), M |-> Num2(s, 6), D |-> Num2(s, 9),
     h |-> Num2(s, 12), m |-> Num2(s, 15), s |-> Num2(s, 18)]

\* _get_date_range
GetDateRange(now, tf) ==
    LET today_start == Midnight(now)
        start == IF tf = "today" THEN today_start
                 ELSE IF tf = "7days" THEN AddDays(today_start, -6)
                 ELSE IF tf = "30days" THEN AddDays(today_start, -29)
                 ELSE today_start
    IN  [start_date |-> Strftime(start), end_date |-> Strftime(now)]

CostParams_NoExtraDay(start_date, end_date) ==
    [starting_at |-> Strftime(Midnight(Strptime(start_date))),
     ending_at |-> Strftime(Midnight(Strptime(end_date)))]

\* the query parameters _fetch_cost sends
CostParams(start_date, end_date) ==
    LET start_dt == Strptime(start_date)
        end_dt == Strptime(end_date)
        start_day == Midnight(start_dt)
        end_day == Midnight(AddDays(end_dt, 1))
    IN  [starting_at |-> Strftime(start_day), ending_at |-> Strftime(end_day)]

(***************************************************************************)
(* The environment: what the Admin API answers                             *)
(***************************************************************************)
NoTokens ==
    [uncached_input_tokens |-> <<>>, cache_read_input_tokens |-> <<>>,
     cache_creation |-> <<>>, output_tokens |-> <<>>]

\* a row with t tokens in every token field
Tokens(t) ==
    [uncached_input_tokens |-> <<t>>, cache_read_input_tokens |-> <<t>>,
     cache_creation |-> <<[ephemeral_1h_input_tokens |-> <<t>>,
                           ephemeral_5m_input_tokens |-> <<t>>]>>,
     output_tokens |-> <<t>>]

\* the token fields a row may carry: none, or 1..MaxTok in each
TokenFields == {NoTokens} \cup {Tokens(t) : t \in 1..MaxTok}

\* the "model" field of a row: absent or a raw identifier
ModelFields ==
    {<<>>,
     <<<<"o","p","u","s","-","4">>>>,
     <<<<"S","o","n","n","e","t","-","O","P","U","S">>>>,
     <<<<"h","a","i","k","u","-","s","o","n","n","e","t">>>>,
     <<<<"H","A","I","K","U">>>>,
     <<<<"g","p","t">>>>}

\* the "api_key_id" field of a row: absent, null or an identifier
KeyFields ==
    {<<>>,
     <<[null |-> TRUE, s |-> <<>>]>>,
     <<[null |-> FALSE, s |-> Workbench]>>,
     <<[null |-> FALSE, s |-> <<"a","b","c">>]>>,
     <<[null |-> FALSE, s |-> <<"k","1","2","3","4","5">>]>>,
     <<[null |-> FALSE, s |-> <<"s","k","-","a","1","2","3","4","5","6">>]>>}

ModelRows ==
    {[model |-> f, uncached_input_tokens |-> t.uncached_input_tokens,
      cache_read_input_tokens |-> t.cache_read_input_tokens,
      cache_creation |-> t.cache_creation, output_tokens |-> t.output_tokens]
        : f \in ModelFields, t \in TokenFields}

KeyRows ==
    {[api_key_id |-> f, uncached_input_tokens |-> t.uncached_input_tokens,
      cache_read_input_tokens |-> t.cache_read_input_tokens,
      cache_creation |-> t.cache_creation, output_tokens |-> t.output_tokens]
        : f \in KeyFields, t \in TokenFields}

\* the "amount" field of a cost row: absent, a number, or not a number
CostRows ==
    {[amount |-> <<>>], [amount |-> <<[num |-> FALSE, v |-> 0]>>]}
        \cup {[amount |-> <<[num |-> TRUE, v |-> a]>>] : a \in 0..MaxAmount}

\* a day-bucket with at least one and at most n rows
Buckets(Rows, n) ==
    {[results |-> rs] : rs \in UNION {[1..k -> Rows] : k \in 1..n}}

\* the sequences of len day-buckets that carry at most n rows
RECURSIVE BucketSeqs(_, _, _)
BucketSeqs(Rows, len, n) ==
    IF len = 0 THEN {<<>>}
    ELSE UNION {{<<b>> \o rest : rest \in BucketSeqs(Rows, len - 1, n - Len(Results(b)))}
                   : b \in Buckets(Rows, n)}

\* the "data" of a report: up to MaxBuckets buckets with up to n rows
ReportData(Rows, n) == UNION {BucketSeqs(Rows, len, n) : len \in 0..MaxBuckets}

\* session.get raised (no response), or a response with a status and a body
\* that parses as JSON or does not
Response(kind, status, parses, data) ==
    [kind |-> kind, status |-> status, parses |-> parses, data |-> data]

NoResponse == Response("none", 0, FALSE, <<>>)

FailedResponses ==
    {Response("transport", 0, FALSE, <<>>),
     Response("http", 401, TRUE, <<>>),
     Response("http", 500, FALSE, <<>>),
     Response("http", 200, FALSE, <<>>)}

Responses(Rows, n) ==
    FailedResponses \cup {Response("http", 200, TRUE, d) : d \in ReportData(Rows, n)}

\* session.get(...); response.raise_for_status(); response.json() raises
FetchRaises_StatusIgnored(resp) ==
    \/ resp.kind = "transport"
    \/ ~resp.parses

FetchRaises(resp) ==
    \/ resp.kind = "transport"
    \/ resp.status \in 400..599
    \/ ~resp.parses

\* _fetch_usage: the value returned when nothing raises
FetchUsage(resp) == resp.data

CostExceptCatches_ConnectionErrorsOnly(resp) == resp.kind = "transport"

\* _fetch_cost: "except Exception" catches every failure of the request
CostExceptCatches(resp) == TRUE

\* _fetch_cost raises: a failure its except clause does not catch
FetchCostRaises(resp) == FetchRaises(resp) /\ ~CostExceptCatches(resp)

\* _fetch_cost: the value returned; the except clause returns []
FetchCost(resp) == IF FetchRaises(resp) THEN <<>> ELSE resp.data

(***************************************************************************)
(* The environment of the session-usage pollers: the keychain and the      *)
(* OAuth usage endpoint                                                    *)
(***************************************************************************)
\* what `security find-generic-password` does: subprocess.run raises, or
\* the tool exits with a return code and a stdout
Keychain(raises, returncode, stdout) ==
    [raises |-> raises, returncode |-> returncode, stdout |-> stdout]

NoKeychain == Keychain(FALSE, 0, "none")

\* stdout: not JSON; a JSON list; a dict without "claudeAiOauth"; a dict
\* whose "claudeAiOauth" is null; one without "accessToken"; one whose
\* "accessToken" is ""; one with an access token
Stdouts == {"garbage", "list", "no_oauth", "oauth_null", "no_token", "empty_token", "token"}

KeychainOutcomes ==
    {Keychain(TRUE, 0, "garbage"), Keychain(FALSE, 44, "garbage")}
        \cup {Keychain(FALSE, 0, out) : out \in Stdouts}

\* json.loads(stdout).get("claudeAiOauth", {}).get("accessToken") raises:
\* JSONDecodeError, or AttributeError on a list or on None
TokenRaises(stdout) == stdout \in {"garbage", "list", "oauth_null"}

\* ... and its value when it does not raise
Token(stdout) == IF stdout = "token" THEN <<"t","o","k">> ELSE <<>>

\* a limit category of the body.  A JSON number is held in tenths (42.5 is
\* 425); resets_at is <<>> when the key is absent, null or ""
Limit(utilization, resets_at) == [utilization |-> utilization, resets_at |-> resets_at]

\* the extra_usage object of the body; the amounts are in cents
ExtraUsage(is_enabled, used_credits, monthly_limit, utilization) ==
    [is_enabled |-> is_enabled, used_credits |-> used_credits,
     monthly_limit |-> monthly_limit, utilization |-> utilization]

\* "2024-03-01T16:00:00.500000+00:00"
FiveHourReset ==
    <<"2","0","2","4","-","0","3","-","0","1","T","1","6",":","0","0",":","0","0",
      ".","5","0","0","0","0","0","+","0","0",":","0","0">>

\* "2024-03-05T09:00:00+00:00"
SevenDayReset ==
    <<"2","0","2","4","-","0","3","-","0","5","T","0","9",":","0","0",":","0","0",
      "+","0","0",":","0","0">>

FiveHours == {<<>>, <<Limit(<<425>>, FiveHourReset)>>, <<Limit(<<800>>, <<>>)>>}

SevenDays == {<<>>, <<Limit(<<70>>, SevenDayReset)>>}

Sonnets == {<<>>, <<Limit(<<30>>, <<>>)>>}

\* extra usage: none, switched off with amounts present, switched on
ExtraUsages ==
    {<<>>, <<ExtraUsage(<<FALSE>>, <<1234>>, <<5050>>, <<246>>)>>,
     <<ExtraUsage(<<TRUE>>, <<1234>>, <<5050>>, <<246>>)>>}

\* the body of a successful answer: each top-level key is optional
Snapshots ==
    {[five_hour |-> f, seven_day |-> d, seven_day_sonnet |-> s, extra_usage |-> e] :
        f \in FiveHours, d \in SevenDays, s \in Sonnets, e \in ExtraUsages}

NoSnapshot ==
    [five_hour |-> <<>>, seven_day |-> <<>>, seven_day_sonnet |-> <<>>, extra_usage |-> <<>>]

\* the answer of the OAuth usage endpoint: the request raises (connection
\* failure, timeout), or a response with a status and a body; the body of
\* an error status is no snapshot
PollResponses ==
    {Response("transport", 0, FALSE, NoSnapshot), Response("timeout", 0, FALSE, NoSnapshot)}
        \cup {Response("http", st, FALSE, NoSnapshot) : st \in {200, 204, 401, 500}}
        \cup {Response("http", st, TRUE, NoSnapshot) : st \in {401, 500}}
        \cup {Response("http", st, TRUE, sn) : st \in {200, 204}, sn \in Snapshots}

\* what a poller hands back: None, a snapshot, or an exception
Polled(kind, snapshot) == [kind |-> kind, snapshot |-> snapshot]

NotPolled == Polled("pending", NoSnapshot)

\* get_oauth_usage (anthropic_api.py) and get_usage (tracker_lite.py) up to
\* the request: "none" when they return None, "request" when they go on
OAuthAfterKeychain(kc) ==
    IF kc.raises THEN "none"
    ELSE IF kc.returncode # 0 THEN "none"
    ELSE IF TokenRaises(kc.stdout) THEN "none"
    ELSE IF Token(kc.stdout) = <<>> THEN "none"
    ELSE "request"

GetOAuthUsageResult_RequestErrorsOnly(resp) ==
    IF resp.kind # "http" THEN Polled("none", NoSnapshot)
    ELSE IF resp.status # 200 THEN Polled("none", NoSnapshot)
    ELSE IF ~resp.parses THEN Polled("raised", NoSnapshot)
    ELSE Polled("snapshot", resp.data)

\* get_oauth_usage (anthropic_api.py) from requests.get on
GetOAuthUsageResult(resp) ==
    IF resp.kind # "http" THEN Polled("none", NoSnapshot)
    ELSE IF resp.status # 200 THEN Polled("none", NoSnapshot)
    ELSE IF ~resp.parses THEN Polled("none", NoSnapshot)
    ELSE Polled("snapshot", resp.data)

\* get_usage (tracker_lite.py) from urlopen on: urlopen raises HTTPError
\* unless the status is 2xx, and the bare except returns None
LiteGetUsageResult(resp) ==
    IF resp.kind # "http" THEN Polled("none", NoSnapshot)
    ELSE IF ~(resp.status \in 200..299) THEN Polled("none", NoSnapshot)
    ELSE IF ~resp.parses THEN Polled("none", NoSnapshot)
    ELSE Polled("snapshot", resp.data)

(***************************************************************************)
(* format_reset_time (anthropic_api.py) and fmt_reset (tracker_lite.py)    *)
(*                                                                         *)
(* A parsed datetime is the record of datetime with its microsecond field. *)
(* datetime.now(dt.tzinfo) is the clock read in the zone of dt, so the     *)
(* difference of the two never involves an offset.  None and "" take the   *)
(* same path in both formatters and are both the empty sequence.           *)
(***************************************************************************)
IsDigit(c) == \E n \in 0..9 : DigitChars[n + 1] = c

AllDigits(s, first, last) == \A i \in first..last : IsDigit(s[i])

\* the first index from i on that holds no digit
RECURSIVE SkipDigits(_, _)
SkipDigits(s, i) ==
    IF i <= Len(s) /\ IsDigit(s[i]) THEN SkipDigits(s, i + 1) ELSE i

\* re.sub(r'\.\d+', '', s) from index i on
RECURSIVE SubFractionFrom(_, _)
SubFractionFrom(s, i) ==
    IF i > Len(s) THEN <<>>
    ELSE IF s[i] = "." /\ i < Len(s) /\ IsDigit(s[i + 1])
         THEN SubFractionFrom(s, SkipDigits(s, i + 1))
         ELSE <<s[i]>> \o SubFractionFrom(s, i + 1)

\* re.sub(r'\.\d+', '', iso_time)
SubFraction(s) == SubFractionFrom(s, 1)

\* old occurs in s at index i
OccursAt(old, s, i) ==
    /\ i + Len(old) - 1 <= Len(s)
    /\ \A k \in 1..Len(old) : s[i + k - 1] = old[k]

\* s.replace(old, new) from index i on
RECURSIVE ReplaceFrom(_, _, _, _)
ReplaceFrom(s, old, new, i) ==
    IF i > Len(s) THEN <<>>
    ELSE IF OccursAt(old, s, i) THEN new \o ReplaceFrom(s, old, new, i + Len(old))
    ELSE <<s[i]>> \o ReplaceFrom(s, old, new, i + 1)

\* s.replace(old, new)
Replace(s, old, new) == ReplaceFrom(s, old, new, 1)

\* s.split(sep)[0] for a one-character sep
SplitFirst(s, sep) ==
    IF \E i \in 1..Len(s) : s[i] = sep
    THEN SubSeq(s, 1, (CHOOSE i \in 1..Len(s) :
                          s[i] = sep /\ \A j \in 1..(i - 1) : s[j] # sep) - 1)
    ELSE s

PlusColon == <<"+","0","0",":","0","0">>

PlusPlain == <<"+","0","0","0","0">>

\* the digits after the decimal point as microseconds: right-padded to six
RECURSIVE Fraction(_, _, _, _)
Fraction(s, i, last, weight) ==
    IF i > last \/ weight = 0 THEN 0
    ELSE DigitValue(s[i]) * weight + Fraction(s, i + 1, last, weight \div 10)

\* the UTC offset part of an ISO string: "", "Z", "+HH:MM", "+HHMM" (either sign)
IsOffset(z) ==
    \/ z = <<>>
    \/ z = <<"Z">>
    \/ /\ Len(z) = 6 /\ z[1] \in {"+", "-"} /\ AllDigits(z, 2, 3) /\ z[4] = ":"
       /\ AllDigits(z, 5, 6) /\ Num2(z, 2) < 24 /\ Num2(z, 5) < 60
    \/ /\ Len(z) = 5 /\ z[1] \in {"+", "-"} /\ AllDigits(z, 2, 5)
       /\ Num2(z, 2) < 24 /\ Num2(z, 4) < 60

NotParsed == [ok |-> FALSE, Y |-> 0, M |-> 0, D |-> 0, h |-> 0, m |-> 0, s |-> 0,
              microsecond |-> 0]

\* datetime.fromisoformat(s) of Python 3.11 on strings that reach the seconds,
\* "YYYY-MM-DD?HH:MM:SS[.f*][offset]"; ok is FALSE where it raises ValueError.
\* A decimal point needs a digit or an offset after it.
FromIsoFormat(s) ==
    IF ~(/\ Len(s) >= 19
         /\ AllDigits(s, 1, 4) /\ s[5] = "-" /\ AllDigits(s, 6, 7) /\ s[8] = "-"
         /\ AllDigits(s, 9, 10)
         /\ AllDigits(s, 12, 13) /\ s[14] = ":" /\ AllDigits(s, 15, 16) /\ s[17] = ":"
         /\ AllDigits(s, 18, 19))
    THEN NotParsed
    ELSE LET hasFraction == Len(s) >= 21 /\ s[20] = "."
             zoneAt == IF hasFraction THEN SkipDigits(s, 21) ELSE 20
             Y == Num2(s, 1) * 100 + Num2(s, 3)
             M == Num2(s, 6)
             D == Num2(s, 9)
         IN  IF /\ Y >= 1 /\ M \in 1..12 /\ D >= 1 /\ D <= DaysInMonth(Y, M)
                /\ Num2(s, 12) < 24 /\ Num2(s, 15) < 60 /\ Num2(s, 18) < 60
                /\ IsOffset(SubSeq(s, zoneAt, Len(s)))
             THEN [ok |-> TRUE, Y |-> Y, M |-> M, D |-> D,
                   h |-> Num2(s, 12), m |-> Num2(s, 15), s |-> Num2(s, 18),
                   microsecond |-> IF hasFraction
                                   THEN Fraction(s, 21, zoneAt - 1, 100000) ELSE 0]
             ELSE NotParsed

\* timedelta(days, seconds, microseconds), normalised as timedelta does:
\* 0 <= seconds < 86400 and 0 <= microseconds < 1000000
TimeDelta(days, seconds, microseconds) ==
    LET s1 == seconds + (IF microseconds < 0 THEN -1 ELSE 0)
    IN  [days |-> days + (IF s1 < 0 THEN -1 ELSE 0),
         seconds |-> IF s1 < 0 THEN s1 + 86400 ELSE s1,
         microseconds |-> IF microseconds < 0 THEN microseconds + 1000000
                          ELSE microseconds]

SecondOfDay(dt) == dt.h * 3600 + dt.m * 60 + dt.s

\* dt - now, now being the clock reading with its microsecond
Sub(dt, now, now_microsecond) ==
    TimeDelta(ToOrdinal(dt.Y, dt.M, dt.D) - ToOrdinal(now.Y, now.M, now.D),
              SecondOfDay(dt) - SecondOfDay(now),
              dt.microsecond - now_microsecond)

\* str(n) for n >= 0
RECURSIVE Str(_)
Str(n) == IF n < 10 THEN <<Digit(n)>> ELSE Str(n \div 10) \o <<Digit(n % 10)>>

\* %b in the C locale
MonthAbbr ==
    << <<"J","a","n">>, <<"F","e","b">>, <<"M","a","r">>, <<"A","p","r">>,
       <<"M","a","y">>, <<"J","u","n">>, <<"J","u","l">>, <<"A","u","g">>,
       <<"S","e","p">>, <<"O","c","t">>, <<"N","o","v">>, <<"D","e","c">> >>

\* dt.strftime("%b %d")
StrftimeMonthDay(dt) == MonthAbbr[dt.M] \o <<" ">> \o Pad2(dt.D)

\* f"{hours}h {mins}m" when hours is not zero, f"{mins}m" otherwise
HoursMinutes(diff) ==
    LET hours == diff.seconds \div 3600
        mins == (diff.seconds % 3600) \div 60
    IN  IF hours > 0 THEN Str(hours) \o <<"h"," ">> \o Str(mins) \o <<"m">>
        ELSE Str(mins) \o <<"m">>

Dashes == <<"-","-">>

QuestionMark == <<"?">>

Tomorrow == <<"T","o","m","o","r","r","o","w">>

\* format_reset_time(iso_time) at the clock reading now
FormatResetTime(iso_time, now, now_microsecond) ==
    IF iso_time = <<>> THEN Dashes
    ELSE LET clean == SubFraction(iso_time)
             dt == FromIsoFormat(Replace(clean, PlusColon, PlusPlain))
             diff == Sub(dt, now, now_microsecond)
         IN  IF ~dt.ok THEN QuestionMark
             ELSE IF diff.days = 0 THEN HoursMinutes(diff)
             ELSE IF diff.days = 1 THEN Tomorrow
             ELSE StrftimeMonthDay(dt)

\* fmt_reset(iso) at the clock reading now
FmtReset(iso, now, now_microsecond) ==
    LET dt == FromIsoFormat(SplitFirst(Replace(iso, PlusColon, PlusPlain), ".") \o PlusPlain)
        diff == Sub(dt, now, now_microsecond)
    IN  IF ~dt.ok THEN QuestionMark
        ELSE IF diff.days = 0 THEN HoursMinutes(diff)
        ELSE StrftimeMonthDay(dt)

(***************************************************************************)
(* The menu-bar apps: ClaudeUsageTracker (tracker.py) and App              *)
(* (tracker_lite.py).  What an app shows is its title and its menu items.  *)
(***************************************************************************)
Ellipsis == <<".",".",".">>

Label5Hour == <<"5","-","h","o","u","r",":"," ">>

LabelWeekly == <<"W","e","e","k","l","y",":"," ">>

LabelSonnet == <<"S","o","n","n","e","t",":"," ">>

LabelExtra == <<"E","x","t","r","a",":"," ">>

LabelUpdated == <<"U","p","d","a","t","e","d",":"," ">>

Disabled == <<"d","i","s","a","b","l","e","d">>

\* int(x) of a JSON number that is not negative
IntOf(tenths) == tenths \div 10

\* f"{pct}%" with pct = int(d.get("utilization", 0))
Percent(d) == Str(IntOf(Get(d.utilization, 0))) \o <<"%">>

\* f"{label}{pct}% (resets {reset})"
LimitItem(label, limit, reset) ==
    label \o Percent(limit) \o <<" ","(","r","e","s","e","t","s"," ">> \o reset \o <<")">>

\* f"{cents / 100:.2f}"
Fixed2(cents) == Str(cents \div 100) \o <<".">> \o Pad2(cents % 100)

\* f"{cents / 100:.0f}": to the nearest integer, a half to the even one
Fixed0(cents) ==
    LET q == cents \div 100
        r == cents % 100
    IN  Str(IF r > 50 \/ (r = 50 /\ q % 2 = 1) THEN q + 1 ELSE q)

\* f"Extra: ${used:.2f}/${limit:.0f} ({pct}%)"
ExtraItem(extra) ==
    LabelExtra \o <<"$">> \o Fixed2(Get(extra.used_credits, 0)) \o <<"/","$">>
    \o Fixed0(Get(extra.monthly_limit, 0)) \o <<" ","(">> \o Percent(extra) \o <<")">>

\* extra and extra.get("is_enabled")
ExtraEnabled(extra) == extra # <<>> /\ Get(extra[1].is_enabled, FALSE)

\* strftime('%H:%M:%S')
StrftimeHMS(dt) == Pad2(dt.h) \o <<":">> \o Pad2(dt.m) \o <<":">> \o Pad2(dt.s)

\* not usage: None, or the body {}
NotUsage(usage) == usage = <<>> \/ usage[1] = NoSnapshot

Display(title, menu_5hr, menu_7day, menu_sonnet, menu_extra, menu_updated) ==
    [title |-> title, menu_5hr |-> menu_5hr, menu_7day |-> menu_7day,
     menu_sonnet |-> menu_sonnet, menu_extra |-> menu_extra, menu_updated |-> menu_updated]

\* _build_menu (tracker.py) and the menu items of App.__init__ (tracker_lite.py)
BuiltMenu(variant) ==
    Display(Ellipsis, Label5Hour \o Ellipsis, LabelWeekly \o Ellipsis,
            LabelSonnet \o Ellipsis, LabelExtra \o Ellipsis,
            LabelUpdated \o (IF variant = "tracker" THEN <<"N","e","v","e","r">>
                              ELSE Dashes))

\* _update_display: what the app shows after it, shown being what it showed
UpdateDisplay(usage, last_refresh, shown, now, now_microsecond) ==
    IF NotUsage(usage) THEN [shown EXCEPT !.title = QuestionMark]
    ELSE LET five_hr == usage[1].five_hour
             seven_day == usage[1].seven_day
             sonnet == usage[1].seven_day_sonnet
             extra == usage[1].extra_usage
             Reset(limit) == FormatResetTime(limit.resets_at, now, now_microsecond)
         IN  Display(
                IF five_hr # <<>> THEN Percent(five_hr[1]) ELSE <<"0","%">>,
                IF five_hr # <<>>
                    THEN LimitItem(Label5Hour, five_hr[1], Reset(five_hr[1]))
                    ELSE Label5Hour \o Dashes,
                IF seven_day # <<>>
                    THEN LimitItem(LabelWeekly, seven_day[1], Reset(seven_day[1]))
                    ELSE LabelWeekly \o Dashes,
                IF sonnet # <<>>
                    THEN LimitItem(LabelSonnet, sonnet[1], Reset(sonnet[1]))
                    ELSE LabelSonnet \o Dashes,
                IF ExtraEnabled(extra) THEN ExtraItem(extra[1])
                    ELSE LabelExtra \o Disabled,
                IF last_refresh # <<>> THEN LabelUpdated \o StrftimeHMS(last_refresh[1])
                    ELSE shown.menu_updated)

\* App.refresh after u = get_usage(): what the app shows when it returns,
\* shown being what it showed after self.title = "..."
LiteRefreshed(u, shown, now, now_microsecond) ==
    IF NotUsage(u) THEN [shown EXCEPT !.title = QuestionMark]
    ELSE LET h == u[1].five_hour
             d == u[1].seven_day
             s == u[1].seven_day_sonnet
             e == u[1].extra_usage
             Reset(limit) == FmtReset(limit.resets_at, now, now_microsecond)
         IN  Display(
                IF h # <<>> THEN Percent(h[1]) ELSE shown.title,
                IF h # <<>> THEN LimitItem(Label5Hour, h[1], Reset(h[1]))
                    ELSE shown.menu_5hr,
                IF d # <<>> THEN LimitItem(LabelWeekly, d[1], Reset(d[1]))
                    ELSE shown.menu_7day,
                IF s # <<>> THEN LimitItem(LabelSonnet, s[1], Reset(s[1]))
                    ELSE LabelSonnet \o Dashes,
                IF ExtraEnabled(e) THEN ExtraItem(e[1])
                    ELSE LabelExtra \o Dashes,
                LabelUpdated \o Pad2(now.h) \o <<":">> \o Pad2(now.m))

(***************************************************************************)
(* State                                                                   *)
(***************************************************************************)
VARIABLES
    clock,        \* datetime.utcnow()
    timeframe,    \* the timeframe the caller asks get_usage for
    budget,       \* rows the organisation's reports hold in this run
    pc,           \* position of the refresh in progress
    start_date,   \* get_usage: start_date
    end_date,     \* get_usage: end_date
    model_resp,   \* response to the group_by=model request
    key_resp,     \* response to the group_by=api_key_id request
    cost_resp,    \* response to the cost_report request
    cost_params,  \* query parameters of the cost_report request
    model_usage,  \* get_usage: model_usage
    key_usage,    \* get_usage: key_usage
    cost_data,    \* get_usage: cost_data
    result,       \* what get_usage returned
    poller,       \* the poller in progress: "api" (anthropic_api.py) or "lite"
    keychain,     \* what the keychain lookup of the poller did
    poll_resp,    \* response to the OAuth usage request
    polled,       \* what the poller returned
    microsecond,  \* the microsecond of the clock reading (datetime.now)
    formatter,    \* the formatter called: "api" (format_reset_time) or "lite" (fmt_reset)
    iso_time,     \* the reset time handed to the formatter
    reset_text,   \* what the formatter returned
    app,          \* the app that runs: "tracker" (tracker.py) or "lite" (tracker_lite.py)
    title,        \* self.title
    menu_5hr,     \* self.menu_5hr.title (tracker.py), self.m5h.title (tracker_lite.py)
    menu_7day,    \* self.menu_7day.title, self.m7d.title
    menu_sonnet,  \* self.menu_sonnet.title, self.mson.title
    menu_extra,   \* self.menu_extra.title, self.mext.title
    menu_updated, \* self.menu_updated.title, self.mupd.title
    usage,        \* self.usage (tracker.py)
    last_refresh  \* self.last_refresh (tracker.py)

usage_vars == <<start_date, end_date, model_resp, key_resp, cost_resp, cost_params,
                model_usage, key_usage, cost_data, result>>

poll_vars == <<poller, keychain, poll_resp, polled>>

reset_vars == <<formatter, iso_time, reset_text>>

shown_vars == <<title, menu_5hr, menu_7day, menu_sonnet, menu_extra, menu_updated>>

app_vars == <<app, shown_vars, usage, last_refresh>>

vars == <<clock, microsecond, timeframe, budget, pc, usage_vars, poll_vars, reset_vars,
          app_vars>>

env == <<clock, microsecond, timeframe, budget>>

Timeframes == {"today", "7days", "30days", "yesterday"}

DateTime(Y, M, D, h, m, s) == [Y |-> Y, M |-> M, D |-> D, h |-> h, m |-> m, s |-> s]

\* clock readings: around month, leap-day and year boundaries, at midnight,
\* in the afternoon and in the last second of the day
Instants ==
    {DateTime(2024, md[1], md[2], t[1], t[2], t[3]) :
        md \in {<<1, 1>>, <<1, 15>>, <<2, 28>>, <<2, 29>>, <<3, 1>>, <<12, 31>>},
        t \in {<<0, 0, 0>>, <<14, 30, 0>>, <<23, 59, 59>>}}
    \cup
    {DateTime(2025, md[1], md[2], t[1], t[2], t[3]) :
        md \in {<<1, 1>>, <<2, 28>>, <<3, 1>>, <<4, 30>>, <<12, 31>>},
        t \in {<<0, 0, 0>>, <<14, 30, 0>>, <<23, 59, 59>>}}

NoDate == <<>>

NoParams == [starting_at |-> <<>>, ending_at |-> <<>>]

Idle ==
    /\ pc = "idle"
    /\ start_date = NoDate /\ end_date = NoDate
    /\ model_resp = NoResponse /\ key_resp = NoResponse /\ cost_resp = NoResponse
    /\ cost_params = NoParams
    /\ model_usage = <<>> /\ key_usage = <<>> /\ cost_data = <<>>
    /\ result = NoReport
    /\ poller = "none" /\ keychain = NoKeychain
    /\ poll_resp = NoResponse /\ polled = NotPolled
    /\ formatter = "none" /\ reset_text = <<>>

\* what the app shows
Shown == Display(title, menu_5hr, menu_7day, menu_sonnet, menu_extra, menu_updated)

\* the app shows d
Showing(d) ==
    /\ title = d.title
    /\ menu_5hr = d.menu_5hr
    /\ menu_7day = d.menu_7day
    /\ menu_sonnet = d.menu_sonnet
    /\ menu_extra = d.menu_extra
    /\ menu_updated = d.menu_updated

\* no app runs
NoApp ==
    /\ app = "none"
    /\ Showing(Display(<<>>, <<>>, <<>>, <<>>, <<>>, <<>>))
    /\ usage = <<>> /\ last_refresh = <<>>

\* the default timeframe at one clock reading, reports with up to MaxRows rows
Init ==
    /\ clock = DateTime(2024, 3, 1, 14, 30, 0)
    /\ microsecond = 0
    /\ iso_time = <<>>
    /\ timeframe = "today"
    /\ budget = MaxRows
    /\ Idle
    /\ NoApp

\* every timeframe at every clock reading, empty reports
InitWindow ==
    /\ clock \in Instants
    /\ microsecond = 0
    /\ iso_time = <<>>
    /\ timeframe \in Timeframes
    /\ budget = 0
    /\ Idle
    /\ NoApp

\* rows the reports may still carry
RowsLeft ==
    budget - Len(ScanRows(model_usage)) - Len(ScanRows(key_usage))

(***************************************************************************)
(* get_usage                                                               *)
(***************************************************************************)
\* get_usage is called: _get_date_range
GetUsage ==
    /\ pc = "idle"
    /\ LET range == GetDateRange(clock, timeframe)
       IN  /\ start_date' = range.start_date
           /\ end_date' = range.end_date
    /\ pc' = "fetch_model"
    /\ UNCHANGED <<env, reset_vars, app_vars, poll_vars, model_resp, key_resp, cost_resp,
                   cost_params,
                   model_usage, key_usage, cost_data, result>>

\* model_usage = self._fetch_usage(..., group_by="model"); an exception
\* reaches the except clause of get_usage, which returns None
FetchModelUsage ==
    /\ pc = "fetch_model"
    /\ \E resp \in Responses(ModelRows, RowsLeft) :
        /\ model_resp' = resp
        /\ IF FetchRaises(resp)
           THEN /\ pc' = "returned"
                /\ UNCHANGED model_usage
           ELSE /\ pc' = "fetch_key"
                /\ model_usage' = FetchUsage(resp)
    /\ UNCHANGED <<env, reset_vars, app_vars, poll_vars, start_date, end_date, key_resp,
                   cost_resp, cost_params,
                   key_usage, cost_data, result>>

\* key_usage = self._fetch_usage(..., group_by="api_key_id")
FetchKeyUsage ==
    /\ pc = "fetch_key"
    /\ \E resp \in Responses(KeyRows, RowsLeft) :
        /\ key_resp' = resp
        /\ IF FetchRaises(resp)
           THEN /\ pc' = "returned"
                /\ UNCHANGED key_usage
           ELSE /\ pc' = "fetch_cost"
                /\ key_usage' = FetchUsage(resp)
    /\ UNCHANGED <<env, reset_vars, app_vars, poll_vars, start_date, end_date,
                   model_resp, cost_resp, cost_params,
                   model_usage, cost_data, result>>

\* cost_data = self._fetch_cost(start_date, end_date)
FetchCostData ==
    /\ pc = "fetch_cost"
    /\ cost_params' = CostParams(start_date, end_date)
    /\ \E resp \in Responses(CostRows, RowsLeft) :
        /\ cost_resp' = resp
        /\ IF FetchCostRaises(resp)
           THEN /\ pc' = "returned"
                /\ UNCHANGED cost_data
           ELSE /\ pc' = "combine"
                /\ cost_data' = FetchCost(resp)
    /\ UNCHANGED <<env, reset_vars, app_vars, poll_vars, start_date, end_date, model_resp, key_resp,
                   model_usage, key_usage, result>>

\* return self._combine_data(...); an exception in it reaches the except
\* clause of get_usage, which returns None
Combine ==
    /\ pc = "combine"
    /\ result' = IF CombineRaises(cost_data) THEN NoReport
                 ELSE CombineData(model_usage, key_usage, cost_data)
    /\ pc' = "returned"
    /\ UNCHANGED <<env, reset_vars, app_vars, poll_vars, start_date, end_date,
                   model_resp, key_resp, cost_resp,
                   cost_params, model_usage, key_usage, cost_data>>

\* the caller has the result; nothing of the call is retained
Return ==
    /\ pc = "returned"
    /\ pc' = "idle"
    /\ start_date' = NoDate /\ end_date' = NoDate
    /\ model_resp' = NoResponse /\ key_resp' = NoResponse /\ cost_resp' = NoResponse
    /\ cost_params' = NoParams
    /\ model_usage' = <<>> /\ key_usage' = <<>> /\ cost_data' = <<>>
    /\ result' = NoReport
    /\ UNCHANGED <<env, reset_vars, app_vars, poll_vars>>

(***************************************************************************)
(* get_oauth_usage (anthropic_api.py) and get_usage (tracker_lite.py)      *)
(***************************************************************************)
\* a poller is called and looks the credentials up; it returns None there
\* or goes on to the request
PollKeychain ==
    /\ pc = "idle"
    /\ \E variant \in {"api", "lite"}, kc \in KeychainOutcomes :
        /\ poller' = variant
        /\ keychain' = kc
        /\ IF OAuthAfterKeychain(kc) = "none"
           THEN /\ polled' = Polled("none", NoSnapshot)
                /\ pc' = "polled"
           ELSE /\ polled' = NotPolled
                /\ pc' = "poll_request"
    /\ UNCHANGED <<env, reset_vars, app_vars, usage_vars, poll_resp>>

\* the single HTTP request of the poller and its return
PollRequest ==
    /\ pc = "poll_request"
    /\ \E resp \in PollResponses :
        /\ poll_resp' = resp
        /\ polled' = IF poller = "api" THEN GetOAuthUsageResult(resp)
                     ELSE LiteGetUsageResult(resp)
    /\ pc' = "polled"
    /\ UNCHANGED <<env, reset_vars, app_vars, usage_vars, poller, keychain>>

\* the caller has the poll result
PollReturn ==
    /\ pc = "polled"
    /\ pc' = "idle"
    /\ poller' = "none" /\ keychain' = NoKeychain
    /\ poll_resp' = NoResponse /\ polled' = NotPolled
    /\ UNCHANGED <<env, reset_vars, app_vars, usage_vars>>

Next ==
    \/ GetUsage
    \/ FetchModelUsage
    \/ FetchKeyUsage
    \/ FetchCostData
    \/ Combine
    \/ Return
    \/ PollKeychain
    \/ PollRequest
    \/ PollReturn

Spec == Init /\ [][Next]_vars

SpecWindow == InitWindow /\ [][Next]_vars

(***************************************************************************)
(* The reset-time formatters on their own: every input at every reading    *)
(***************************************************************************)
\* dt + timedelta(seconds=n)
AddSeconds(dt, n) ==
    LET total == SecondOfDay(dt) + n
        sod == total % 86400
        day == AddDays(dt, (total - sod) \div 86400)
    IN  [day EXCEPT !.h = sod \div 3600, !.m = (sod % 3600) \div 60, !.s = sod % 60]

\* the ISO 8601 text of an instant as the usage API writes it: the fraction
\* is optional (<<>> or <<microseconds>>), zone is the offset designator
IsoFormat(dt, fraction, zone) ==
    Pad4(dt.Y) \o <<"-">> \o Pad2(dt.M) \o <<"-">> \o Pad2(dt.D) \o <<"T">>
    \o Pad2(dt.h) \o <<":">> \o Pad2(dt.m) \o <<":">> \o Pad2(dt.s)
    \o (IF fraction = <<>> THEN <<>>
        ELSE <<".">> \o Pad2(fraction[1] \div 10000) \o Pad2((fraction[1] \div 100) % 100)
             \o Pad2(fraction[1] % 100))
    \o zone

\* microsecond readings of the clock and of a reset time
Microseconds == {0, 500000}

\* clock readings the formatters are called at
ResetClocks ==
    {DateTime(2024, 3, 1, 14, 30, 0), DateTime(2024, 2, 28, 23, 59, 59),
     DateTime(2024, 3, 1, 0, 0, 20), DateTime(2024, 12, 31, 22, 45, 10)}

\* seconds from the clock reading to the reset: a minute ago, now, under and
\* at the minute, the hour, 90 minutes, around one day, two days and a month
ResetOffsets ==
    {-60, 0, 59, 60, 3599, 3600, 5400, 86399, 86400, 91800, 172799, 172800, 2678400}

\* strings fromisoformat does not accept
Unparsable ==
    {<<"s","o","o","n">>,
     <<"2","0","2","4","-","1","3","-","0","1","T","0","0",":","0","0",":","0","0","Z">>,
     <<"2","0","2","4","-","0","2","-","3","0","T","0","0",":","0","0",":","0","0">>,
     <<"2","0","2","4","-","0","3","-","0","2","T","0","0",":","0","0",":","0","0",".">>}

\* what resets_at can hold at the clock reading now: nothing, such a
\* string, or the text of an instant
ResetInputs(now) ==
    {<<>>} \cup Unparsable \cup
    {IsoFormat(AddSeconds(now, off), fraction, zone) :
        off \in ResetOffsets,
        fraction \in {<<>>} \cup {<<us>> : us \in Microseconds},
        zone \in {PlusColon, <<"Z">>, <<>>}}

InitReset ==
    /\ clock \in ResetClocks
    /\ microsecond \in Microseconds
    /\ iso_time \in ResetInputs(clock)
    /\ timeframe = "today"
    /\ budget = 0
    /\ Idle
    /\ NoApp

\* format_reset_time(iso_time) is called and returns
FormatReset ==
    /\ pc = "idle"
    /\ formatter' = "api"
    /\ reset_text' = FormatResetTime(iso_time, clock, microsecond)
    /\ pc' = "formatted"
    /\ UNCHANGED <<env, app_vars, usage_vars, poll_vars, iso_time>>

\* fmt_reset(iso_time) is called and returns
LiteFormatReset ==
    /\ pc = "idle"
    /\ formatter' = "lite"
    /\ reset_text' = FmtReset(iso_time, clock, microsecond)
    /\ pc' = "formatted"
    /\ UNCHANGED <<env, app_vars, usage_vars, poll_vars, iso_time>>

NextReset ==
    \/ FormatReset
    \/ LiteFormatReset

SpecReset == InitReset /\ [][NextReset]_vars

(***************************************************************************)
(* The menu-bar apps.  The refresh handler is what the constructor, the    *)
(* timer (_auto_refresh, auto_refresh) and the Refresh item call; the call *)
(* the constructor makes is the first step.  One refresh reads the clock   *)
(* once.  polled keeps what the poller returned to the latest refresh.     *)
(***************************************************************************)
AppStart == DateTime(2024, 3, 1, 14, 30, 0)

\* the clock readings of the refreshes: at the start and a minute later
AppClocks == {AppStart, AddSeconds(AppStart, 60)}

\* readings not before the clock
LaterClocks == {now \in AppClocks : SecondOfDay(now) >= SecondOfDay(clock)}

\* the responses the request of a poller can meet after the lookup kc
RequestsOf(kc) ==
    IF OAuthAfterKeychain(kc) = "none" THEN {NoResponse} ELSE PollResponses

\* the app comes to show d
Show(d) ==
    /\ title' = d.title
    /\ menu_5hr' = d.menu_5hr
    /\ menu_7day' = d.menu_7day
    /\ menu_sonnet' = d.menu_sonnet
    /\ menu_extra' = d.menu_extra
    /\ menu_updated' = d.menu_updated

InitApp ==
    /\ clock = AppStart
    /\ microsecond = 0
    /\ iso_time = <<>>
    /\ timeframe = "today"
    /\ budget = 0
    /\ Idle
    /\ app \in {"tracker", "lite"}
    /\ Showing(BuiltMenu(app))
    /\ usage = <<>> /\ last_refresh = <<>>

\* _refresh_data (tracker.py)
RefreshData ==
    /\ pc = "idle"
    /\ app = "tracker"
    /\ \E kc \in KeychainOutcomes : \E resp \in RequestsOf(kc) : \E now \in LaterClocks :
        LET got == IF OAuthAfterKeychain(kc) = "none" THEN Polled("none", NoSnapshot)
                   ELSE GetOAuthUsageResult(resp)
            new_usage == IF got.kind = "snapshot" THEN <<got.snapshot>> ELSE <<>>
        IN  /\ clock' = now
            /\ polled' = got
            /\ IF got.kind = "raised"
               THEN /\ Show([Shown EXCEPT !.title = <<"E","r","r">>])
                    /\ UNCHANGED <<usage, last_refresh>>
               ELSE /\ usage' = new_usage
                    /\ last_refresh' = <<now>>
                    /\ Show(UpdateDisplay(new_usage, <<now>>,
                                          [Shown EXCEPT !.title = Ellipsis],
                                          now, microsecond))
    /\ UNCHANGED <<microsecond, timeframe, budget, pc, app, usage_vars, reset_vars,
                   poller, keychain, poll_resp>>

\* App.refresh (tracker_lite.py)
LiteRefresh ==
    /\ pc = "idle"
    /\ app = "lite"
    /\ \E kc \in KeychainOutcomes : \E resp \in RequestsOf(kc) : \E now \in LaterClocks :
        LET got == IF OAuthAfterKeychain(kc) = "none" THEN Polled("none", NoSnapshot)
                   ELSE LiteGetUsageResult(resp)
            u == IF got.kind = "snapshot" THEN <<got.snapshot>> ELSE <<>>
        IN  /\ clock' = now
            /\ polled' = got
            /\ Show(LiteRefreshed(u, [Shown EXCEPT !.title = Ellipsis], now, microsecond))
    /\ UNCHANGED <<microsecond, timeframe, budget, pc, app, usage_vars, reset_vars,
                   poller, keychain, poll_resp, usage, last_refresh>>

NextApp ==
    \/ RefreshData
    \/ LiteRefresh

SpecApp == InitApp /\ [][NextApp]_vars

(***************************************************************************)
(* Properties                                                              *)
(***************************************************************************)
\* a request that was made and did not answer with a success status
RequestFailed(resp) ==
    \/ resp.kind \in {"transport", "timeout"}
    \/ resp.kind = "http" /\ ~(resp.status \in 200..299)

\* ... or answered with a body that is not JSON
RequestUnusable(resp) ==
    RequestFailed(resp) \/ (resp.kind = "http" /\ ~resp.parses)

RowCount(buckets) == Len(ScanRows(buckets))

\* C1: when the model-grouped or the credential-grouped usage fetch fails
\* (non-success status or transport error), get_usage returns None: no
\* report is ever built from the fetch that succeeded.
C1_UsageFailureAborts ==
    (RequestFailed(model_resp) \/ RequestFailed(key_resp)) =>
        /\ result.kind = "none"
        /\ pc = "returned"

\* the model-grouped fetch delivered rows, the credential-grouped one failed
C1_Witness ==
    /\ pc = "returned"
    /\ RowCount(model_usage) > 0
    /\ key_resp.kind = "http" /\ key_resp.status = 500
    /\ result.kind = "none"

\* the token fields of a report: total, every by_model and every by_key entry
TokenFigures(u) == <<u.input_tokens, u.output_tokens, u.total_tokens>>

TokenView(r) ==
    [total |-> TokenFigures(r.heap[r.total]),
     by_model |-> [i \in 1..Len(r.by_model) |->
                      <<r.by_model[i].model, TokenFigures(r.heap[r.by_model[i].usage])>>],
     by_key |-> [i \in 1..Len(r.by_key) |->
                    <<r.by_key[i].key_id, r.by_key[i].key_hint,
                      TokenFigures(r.heap[r.by_key[i].usage])>>]]

\* the data of the successful cost fetches the refresh could have had
\* instead, among those _combine_data accepts
GoodCostData == {d \in ReportData(CostRows, RowsLeft) : ~CombineRaises(d)}

\* C2: when both usage fetches succeeded and the cost fetch failed,
\* get_usage returns a report; its cost is 0 and its token fields are those
\* of the report produced with any successful cost fetch.
C2_CostFetchBestEffort ==
    (pc = "returned" /\ model_resp.kind = "http" /\ ~RequestUnusable(model_resp)
                     /\ key_resp.kind = "http" /\ ~RequestUnusable(key_resp)
                     /\ RequestUnusable(cost_resp)) =>
        /\ result.kind = "report"
        /\ result.heap[result.total].cost_usd = 0
        /\ \A d \in GoodCostData :
              TokenView(result) = TokenView(CombineData(model_usage, key_usage, d))

\* usage rows arrived, the cost endpoint answered 500, a report came back
C2_Witness ==
    /\ pc = "returned"
    /\ RowCount(model_usage) > 0 /\ RowCount(key_usage) > 0
    /\ cost_resp.kind = "http" /\ cost_resp.status = 500
    /\ result.kind = "report"
    /\ result.heap[result.total].total_tokens > 0

\* the keychain lookup gave the poller no access token
NoTokenFound ==
    keychain.raises \/ keychain.returncode # 0 \/ keychain.stdout # "token"

\* C3: a session-usage poller never raises; it returns None when the token
\* is missing, the request fails in transport or times out, the status is
\* not a success status (not 200, for get_oauth_usage) or the body does not
\* parse; it returns a snapshot, the body, only after a success status.
C3_PollerNeverRaises ==
    /\ polled.kind # "raised"
    /\ pc = "polled" =>
        /\ polled.kind \in {"none", "snapshot"}
        /\ (NoTokenFound \/ RequestUnusable(poll_resp)) => polled.kind = "none"
        /\ (poller = "api" /\ poll_resp.kind = "http" /\ poll_resp.status # 200)
              => polled.kind = "none"
        /\ polled.kind = "snapshot" =>
              /\ poll_resp.kind = "http" /\ poll_resp.status \in 200..299
              /\ polled.snapshot = poll_resp.data

\* get_oauth_usage got status 200 with a body that is not JSON
C3_Witness ==
    /\ pc = "polled" /\ poller = "api"
    /\ poll_resp.kind = "http" /\ poll_resp.status = 200 /\ ~poll_resp.parses
    /\ polled.kind = "none"

\* the UsageData values of a report: the total and every entry's figures
ReportFigures(r) ==
    {r.heap[r.total]}
        \cup {r.heap[r.by_model[i].usage] : i \in 1..Len(r.by_model)}
        \cup {r.heap[r.by_key[i].usage] : i \in 1..Len(r.by_key)}

TotalIsSum(u) == u.total_tokens = u.input_tokens + u.output_tokens

\* C4: every UsageData of a returned report has
\* total_tokens = input_tokens + output_tokens, and so has the __add__ of
\* any two of them.
C4_TotalIsInputPlusOutput ==
    result.kind = "report" =>
        /\ \A u \in ReportFigures(result) : TotalIsSum(u)
        /\ \A u, v \in ReportFigures(result) : TotalIsSum(UsageDataAdd(u, v))

\* a report over two models with tokens
C4_Witness ==
    /\ result.kind = "report"
    /\ Len(result.by_model) = 2
    /\ \A i \in 1..2 : result.heap[result.by_model[i].usage].total_tokens > 0
    /\ result.heap[result.total].total_tokens > result.heap[result.total].input_tokens

\* position of the first row, in scan order, whose key is k
FirstSeen(rows, Key(_), k) ==
    CHOOSE i \in 1..Len(rows) :
        /\ Key(rows[i]) = k
        /\ \A j \in 1..(i - 1) : Key(rows[j]) # k

\* C5: by_model and by_key are sorted by total_tokens, descending; entries
\* with equal total_tokens are in the order in which their display name or
\* credential id was first met in the scan of the buckets and rows.
C5_SortedDescendingStable ==
    result.kind = "report" =>
        /\ \A i, j \in 1..Len(result.by_model) : i < j =>
              LET ti == result.heap[result.by_model[i].usage].total_tokens
                  tj == result.heap[result.by_model[j].usage].total_tokens
              IN  /\ ti >= tj
                  /\ ti = tj =>
                        FirstSeen(ScanRows(model_usage), ModelKey, result.by_model[i].model)
                          < FirstSeen(ScanRows(model_usage), ModelKey, result.by_model[j].model)
        /\ \A i, j \in 1..Len(result.by_key) : i < j =>
              LET ti == result.heap[result.by_key[i].usage].total_tokens
                  tj == result.heap[result.by_key[j].usage].total_tokens
              IN  /\ ti >= tj
                  /\ ti = tj =>
                        FirstSeen(ScanRows(key_usage), ApiKeyId, result.by_key[i].key_id)
                          < FirstSeen(ScanRows(key_usage), ApiKeyId, result.by_key[j].key_id)

\* two models tie on a positive total
C5_Witness ==
    /\ result.kind = "report"
    /\ Len(result.by_model) = 2
    /\ result.heap[result.by_model[1].usage].total_tokens
         = result.heap[result.by_model[2].usage].total_tokens
    /\ result.heap[result.by_model[1].usage].total_tokens > 0

RECURSIVE SumSeq(_)
SumSeq(ns) == IF ns = <<>> THEN 0 ELSE Head(ns) + SumSeq(Tail(ns))

\* the sum of F over the rows
SumOver(rows, F(_)) == SumSeq([i \in 1..Len(rows) |-> F(rows[i])])

\* the sum of F over the rows that satisfy P
SumWhere(rows, P(_), F(_)) ==
    SumSeq([i \in 1..Len(rows) |-> IF P(rows[i]) THEN F(rows[i]) ELSE 0])

Field(f) == IF f = <<>> THEN 0 ELSE f[1]

\* effective input of the per-model aggregation, as specified
EffectiveInput(row) ==
    Field(row.uncached_input_tokens) + Field(row.cache_read_input_tokens)
    + (IF row.cache_creation = <<>> THEN 0
       ELSE Field(row.cache_creation[1].ephemeral_1h_input_tokens)
            + Field(row.cache_creation[1].ephemeral_5m_input_tokens))

EffectiveOutput(row) == Field(row.output_tokens)

\* the sequences with the elements of s in any order
PermSeqs(s) == {[i \in 1..Len(s) |-> s[p[i]]] : p \in Permutations(1..Len(s))}

RECURSIVE RowReorderings(_)
RowReorderings(buckets) ==
    IF buckets = <<>> THEN {<<>>}
    ELSE {<<[results |-> rs]>> \o rest :
             rs \in PermSeqs(Head(buckets).results), rest \in RowReorderings(Tail(buckets))}

\* every permutation of the buckets and of the rows inside each bucket
Reorderings(buckets) == UNION {RowReorderings(b) : b \in PermSeqs(buckets)}

RECURSIVE SumFigures(_, _, _)
SumFigures(r, list, i) ==
    IF i > Len(list) THEN <<0, 0, 0>>
    ELSE LET u == r.heap[list[i].usage]
             rest == SumFigures(r, list, i + 1)
         IN  <<u.input_tokens + rest[1], u.output_tokens + rest[2], u.total_tokens + rest[3]>>

\* C6: the grand total's input, output and total tokens are the sums over
\* all rows of all buckets of (uncached + cache_read + cache_creation 1h +
\* cache_creation 5m), of output_tokens and of both; they are the
\* component-wise sum of the by_model entries; they are the same for every
\* permutation of the buckets and of the rows inside a bucket.
C6_GrandTotalIsRowSum ==
    result.kind = "report" =>
        LET rows == ScanRows(model_usage)
            t == result.heap[result.total]
        IN  /\ t.input_tokens = SumOver(rows, EffectiveInput)
            /\ t.output_tokens = SumOver(rows, EffectiveOutput)
            /\ t.total_tokens = SumOver(rows, EffectiveInput) + SumOver(rows, EffectiveOutput)
            /\ TokenFigures(t) = SumFigures(result, result.by_model, 1)
            /\ \A re \in Reorderings(model_usage) :
                  LET r2 == CombineData(re, key_usage, cost_data)
                  IN  TokenFigures(r2.heap[r2.total]) = TokenFigures(t)

\* two buckets of model rows with cache-creation tokens, for two models
C6_Witness ==
    /\ result.kind = "report"
    /\ Len(model_usage) = 2
    /\ Len(result.by_model) = 2
    /\ \E i \in 1..2 : model_usage[i].results[1].cache_creation # <<>>
    /\ result.heap[result.total].input_tokens > 0

CostAmount(row) == IF row.amount = <<>> THEN 0 ELSE row.amount[1].v

\* C7: total.cost_usd is the sum of the amounts of all rows of all cost
\* buckets; every by_model and every by_key entry has cost_usd = 0.
C7_CostOnlyOnTotal ==
    result.kind = "report" =>
        /\ result.heap[result.total].cost_usd = SumOver(ScanRows(cost_data), CostAmount)
        /\ \A i \in 1..Len(result.by_model) : result.heap[result.by_model[i].usage].cost_usd = 0
        /\ \A i \in 1..Len(result.by_key) : result.heap[result.by_key[i].usage].cost_usd = 0

\* exactly one model, one credential, and a cost
C7_Witness ==
    /\ result.kind = "report"
    /\ Len(result.by_model) = 1
    /\ result.heap[result.total].cost_usd > 0
    /\ result.heap[result.by_model[1].usage].total_tokens > 0

\* the display names the normalization rule gives the identifiers of the
\* model-grouped rows (absent: "unknown")
ExpectedDisplayName(row) ==
    IF row.model = <<>> THEN <<"u","n","k","n","o","w","n">>
    ELSE IF row.model[1] = <<"o","p","u","s","-","4">> THEN <<"O","p","u","s">>
    ELSE IF row.model[1] = <<"S","o","n","n","e","t","-","O","P","U","S">> THEN <<"O","p","u","s">>
    ELSE IF row.model[1] = <<"h","a","i","k","u","-","s","o","n","n","e","t">>
         THEN <<"S","o","n","n","e","t">>
    ELSE IF row.model[1] = <<"H","A","I","K","U">> THEN <<"H","a","i","k","u">>
    ELSE row.model[1]

\* C8: by_model has exactly one entry per display name of the rows, no two
\* entries share a name, and an entry's input and output are the sums over
\* the rows whose identifier normalizes to its name.
C8_OneSummaryPerDisplayName ==
    result.kind = "report" =>
        LET rows == ScanRows(model_usage)
        IN  /\ \A i, j \in 1..Len(result.by_model) :
                  result.by_model[i].model = result.by_model[j].model => i = j
            /\ {result.by_model[i].model : i \in 1..Len(result.by_model)}
                  = {ExpectedDisplayName(rows[k]) : k \in 1..Len(rows)}
            /\ \A i \in 1..Len(result.by_model) :
                  LET u == result.heap[result.by_model[i].usage]
                      Mine(row) == ExpectedDisplayName(row) = result.by_model[i].model
                  IN  /\ u.input_tokens = SumWhere(rows, Mine, EffectiveInput)
                      /\ u.output_tokens = SumWhere(rows, Mine, EffectiveOutput)

\* two rows with different raw identifiers merged into the one entry "Opus"
C8_Witness ==
    /\ result.kind = "report"
    /\ Len(ScanRows(model_usage)) = 2
    /\ ScanRows(model_usage)[1].model # ScanRows(model_usage)[2].model
    /\ Len(result.by_model) = 1
    /\ result.by_model[1].model = <<"O","p","u","s">>
    /\ result.heap[result.by_model[1].usage].input_tokens = 8 * MaxTok

\* the credential a row is attributed to, as specified
ExpectedKeyId(row) ==
    IF row.api_key_id = <<>> THEN <<"w","o","r","k","b","e","n","c","h">>
    ELSE IF row.api_key_id[1].null THEN <<"w","o","r","k","b","e","n","c","h">>
    ELSE row.api_key_id[1].s

KeyInput(row) == Field(row.uncached_input_tokens) + Field(row.cache_read_input_tokens)

\* the display hint of a credential, as specified
ExpectedHint(id) ==
    IF id = <<"w","o","r","k","b","e","n","c","h">> THEN <<"W","o","r","k","b","e","n","c","h">>
    ELSE IF id = <<"s","k","-","a","1","2","3","4","5","6">>
         THEN <<".",".",".","1","2","3","4","5","6">>
    ELSE IF Len(id) > 6
         THEN <<".",".",".">> \o [i \in 1..6 |-> id[Len(id) - 6 + i]]
    ELSE id

\* C9: by_key has one entry per credential id; an entry's input is the sum
\* of uncached_input + cache_read_input of its rows (no cache-creation
\* tokens), its output the sum of their output_tokens; rows without a
\* credential id go to the entry "workbench" with hint "Workbench"; an id
\* longer than 6 characters has the hint "..." + its last 6 characters, a
\* shorter one is its own hint.
C9_PerCredentialAggregation ==
    result.kind = "report" =>
        LET rows == ScanRows(key_usage)
        IN  /\ \A i, j \in 1..Len(result.by_key) :
                  result.by_key[i].key_id = result.by_key[j].key_id => i = j
            /\ {result.by_key[i].key_id : i \in 1..Len(result.by_key)}
                  = {ExpectedKeyId(rows[k]) : k \in 1..Len(rows)}
            /\ \A i \in 1..Len(result.by_key) :
                  LET e == result.by_key[i]
                      u == result.heap[e.usage]
                      Mine(row) == ExpectedKeyId(row) = e.key_id
                  IN  /\ u.input_tokens = SumWhere(rows, Mine, KeyInput)
                      /\ u.output_tokens = SumWhere(rows, Mine, EffectiveOutput)
                      /\ e.key_hint = ExpectedHint(e.key_id)

\* a row without credential id and with cache-creation tokens, and a row of
\* a long credential id
C9_Witness ==
    /\ result.kind = "report"
    /\ Len(result.by_key) = 2
    /\ \E k \in 1..Len(ScanRows(key_usage)) :
          /\ ScanRows(key_usage)[k].api_key_id = <<>>
          /\ ScanRows(key_usage)[k].cache_creation # <<>>
    /\ \E i \in 1..2 :
          /\ result.by_key[i].key_id = <<"w","o","r","k","b","e","n","c","h">>
          /\ result.by_key[i].key_hint = <<"W","o","r","k","b","e","n","c","h">>
          /\ result.heap[result.by_key[i].usage].input_tokens > 0
    /\ \E i \in 1..2 : result.by_key[i].key_hint = <<".",".",".","1","2","3","4","5","6">>

\* the calendar day after Y-M-D
DayAfter(dt) ==
    IF dt.D < DaysInMonth(dt.Y, dt.M) THEN [Y |-> dt.Y, M |-> dt.M, D |-> dt.D + 1]
    ELSE IF dt.M < 12 THEN [Y |-> dt.Y, M |-> dt.M + 1, D |-> 1]
    ELSE [Y |-> dt.Y + 1, M |-> 1, D |-> 1]

\* a is not later than b
NotLater(a, b) ==
    LET ta == <<a.Y, a.M, a.D, a.h, a.m, a.s>>
        tb == <<b.Y, b.M, b.D, b.h, b.m, b.s>>
    IN  \/ ta = tb
        \/ \E i \in 1..6 : ta[i] < tb[i] /\ \A j \in 1..(i - 1) : ta[j] = tb[j]

\* C10: the window sent to the cost endpoint contains the requested one;
\* it starts at 00:00:00 of the requested start's day and ends at 00:00:00
\* of the day after the requested end's day.
C10_CostWindowContainsRequested ==
    cost_params # NoParams =>
        LET s == Strptime(start_date)
            e == Strptime(end_date)
            ws == Strptime(cost_params.starting_at)
            we == Strptime(cost_params.ending_at)
            next == DayAfter(e)
        IN  /\ NotLater(s, e)
            /\ ws = DateTime(s.Y, s.M, s.D, 0, 0, 0)
            /\ we = DateTime(next.Y, next.M, next.D, 0, 0, 0)
            /\ NotLater(ws, s) /\ NotLater(e, we)

\* the requested end is midnight of the last day of a year
C10_Witness ==
    /\ cost_params # NoParams
    /\ clock = DateTime(2024, 12, 31, 0, 0, 0)
    /\ timeframe = "30days"
    /\ cost_params.ending_at = Strftime(DateTime(2025, 1, 1, 0, 0, 0))

(***************************************************************************)
(* C11: format_reset_time applies its rules in order: a missing input      *)
(* gives "--"; an unparsable one gives "?"; a reset whose difference to    *)
(* now is 0 whole days gives "{hours}h {minutes}m" when the remaining      *)
(* whole hours are above 0 and "{minutes}m" otherwise, both floored; a     *)
(* difference of 1 whole day gives "Tomorrow"; every other reset gives the *)
(* abbreviated month and the zero-padded day.  In particular a reset 90    *)
(* minutes in the future gives "1h 30m".  The remaining time is that from  *)
(* the clock reading to the instant the input denotes.                     *)
(***************************************************************************)
\* the instant iso_time denotes
ResetInstant == FromIsoFormat(iso_time)

\* the time from the clock reading to that instant
Remaining == Sub(ResetInstant, clock, microsecond)

C11_ResetTimeRules ==
    (pc = "formatted" /\ formatter = "api") =>
        /\ reset_text =
              IF iso_time = <<>> THEN Dashes
              ELSE IF ~ResetInstant.ok THEN QuestionMark
              ELSE IF Remaining.days = 0 THEN HoursMinutes(Remaining)
              ELSE IF Remaining.days = 1 THEN Tomorrow
              ELSE StrftimeMonthDay(ResetInstant)
        /\ (ResetInstant.ok /\ Remaining = TimeDelta(0, 5400, 0))
               => reset_text = <<"1","h"," ","3","0","m">>

\* a refresh of the app has finished
RefreshFinished == app # "none" /\ polled.kind # "pending"

\* the latest refresh displayed a snapshot
SnapshotDisplayed ==
    RefreshFinished /\ polled.kind = "snapshot" /\ ~NotUsage(<<polled.snapshot>>)

\* the extra-usage item shows amounts
ExtraShowsAmounts ==
    menu_extra \notin {LabelExtra \o Ellipsis, LabelExtra \o Dashes, LabelExtra \o Disabled}

\* C12: whenever the extra_usage of a snapshot has is_enabled false, the
\* extra-usage state rendered after the refresh is "disabled", whatever
\* used_credits, monthly_limit and utilization the payload holds; the
\* numeric fields are rendered only when is_enabled is true.
C12_DisabledExtraUsage ==
    SnapshotDisplayed =>
        LET extra == polled.snapshot.extra_usage
        IN  /\ (extra # <<>> /\ ~Get(extra[1].is_enabled, FALSE))
                  => menu_extra = LabelExtra \o Disabled
            /\ ExtraShowsAmounts
                  => ExtraEnabled(extra) /\ menu_extra = ExtraItem(extra[1])

\* the texts an item with this label shows when it has no value
Placeholders(label) == {label \o Ellipsis, label \o Dashes, label \o Disabled}

\* the titles that show no utilization of a poll
PlaceholderTitles == {QuestionMark, Dashes, <<"0","%">>}

\* the latest poll gave this category
Polled5Hour == polled.kind = "snapshot" /\ polled.snapshot.five_hour # <<>>

Polled7Day == polled.kind = "snapshot" /\ polled.snapshot.seven_day # <<>>

PolledSonnet == polled.kind = "snapshot" /\ polled.snapshot.seven_day_sonnet # <<>>

PolledExtra == polled.kind = "snapshot" /\ polled.snapshot.extra_usage # <<>>

\* C13: after any sequence of refreshes, of the timer or of the Refresh
\* item, what the app shows follows from the latest poll alone: when that
\* poll returned no snapshot, or a snapshot without a limit category, the
\* title and the menu item of the category show a placeholder, and no
\* utilization or reset time of an earlier poll is still shown; and the
\* title is never left at "..." once a refresh has finished.
C13_DisplayFollowsLatestPoll ==
    RefreshFinished =>
        /\ title # Ellipsis
        /\ ~Polled5Hour => title \in PlaceholderTitles /\ menu_5hr \in Placeholders(Label5Hour)
        /\ ~Polled7Day => menu_7day \in Placeholders(LabelWeekly)
        /\ ~PolledSonnet => menu_sonnet \in Placeholders(LabelSonnet)
        /\ ~PolledExtra => menu_extra \in Placeholders(LabelExtra)

====
